---- MODULE Spec2Model ----
(***************************************************************************)
(* Lifecycle / timer / reconciliation engine of the White Flag bot.        *)
(*                                                                         *)
(* Two variants of the bot live in the repository: src/index.js (slash     *)
(* commands, startup sweep, 24h warnings, no claim lock) and               *)
(* src/unnamed/part_002 (claim lock through bounty.claimStatus, no slash   *)
(* commands, no startup sweep, warning schedulers called but not defined). *)
(* The variable `variant` fixes which one a behaviour runs.                *)
(*                                                                         *)
(* One action is one synchronous segment of a handler: the code between    *)
(* two awaits that do I/O runs without interleaving on the event loop.     *)
(* A handler that writes records after such an await is split in two       *)
(* actions, the second resuming from the snapshot the first one held.      *)
(***************************************************************************)
EXTENDS Integers, Sequences, FiniteSets, TLC

\* ------------------------------------------------------------------ bounds
MaxRequests == 2
MaxClaims == 2
MaxDays == 9
MaxCrashes == 1

\* ------------------------------------------------------- program constants
ONE_DAY_MS == 24 * 60 * 60 * 1000
SEVEN_DAYS_MS == 7 * 24 * 60 * 60 * 1000
ONE_WEEK_MS == 7 * 24 * 60 * 60 * 1000

MaxTime == MaxDays * ONE_DAY_MS

\* An absent numeric field (JavaScript undefined).
None == 0 - 1
\* An absent claim id.
NoClaim == 0

\* JavaScript truthiness of a numeric field: undefined and 0 are falsy.
Truthy(x) == x # None /\ x # 0
\* typeof x === "number"
IsNumber(x) == x # None

Users == {"u1", "u2"}
Admin == "admin"
NoUser == "nobody"

\* ------------------------------------------------------------ tribe names
\* A name is a sequence of one-character strings.
Whitespace == {" "}
Backslash == "\\"

\* What a user may type in the tribe field.
TribeInputs ==
    { <<"a", " ", "b">>,
      <<" ", "a", " ", "b">>,
      <<"a", " ", " ", "b">> }

RECURSIVE TrimLeft(_)
TrimLeft(s) ==
    IF s = <<>> THEN <<>>
    ELSE IF Head(s) \in Whitespace THEN TrimLeft(Tail(s)) ELSE s

RECURSIVE TrimRight(_)
TrimRight(s) ==
    IF s = <<>> THEN <<>>
    ELSE IF s[Len(s)] \in Whitespace THEN TrimRight(SubSeq(s, 1, Len(s) - 1)) ELSE s

\* String.prototype.trim
Trim(s) == TrimRight(TrimLeft(s))

LowerChar(c) ==
    CASE c = "A" -> "a"
      [] c = "B" -> "b"
      [] c = "S" -> "s"
      [] OTHER -> c

\* String.prototype.toLowerCase
ToLowerCase(s) == [i \in 1..Len(s) |-> LowerChar(s[i])]

RECURSIVE DropLeadingS(_)
DropLeadingS(s) ==
    IF s = <<>> THEN <<>>
    ELSE IF Head(s) = "s" THEN DropLeadingS(Tail(s)) ELSE s

\* .replace(/\\s+/g, " "): in a regex literal \\ is a literal backslash, so the
\* pattern is a backslash followed by one or more letters s.
RECURSIVE ReplaceBackslashS(_)
ReplaceBackslashS(s) ==
    IF s = <<>> THEN <<>>
    ELSE IF Head(s) = Backslash /\ Len(s) >= 2 /\ s[2] = "s"
         THEN <<" ">> \o ReplaceBackslashS(DropLeadingS(Tail(s)))
         ELSE <<Head(s)>> \o ReplaceBackslashS(Tail(s))

normalizeTribeName(name) == ReplaceBackslashS(ToLowerCase(Trim(name)))

\* The names the handlers store and look up (they trim their input first),
\* and normalizeTribeName tabulated over them.
TribeNames == {Trim(n) : n \in TribeInputs}
normalizedTribeName == [n \in TribeNames |-> normalizeTribeName(n)]

\* ---------------------------------------------------------------- records
NoBounty ==
    [ exists |-> FALSE, active |-> FALSE, startedAt |-> None, endsAt |-> None,
      claimedAt |-> None, claimedBy |-> NoUser, removedAt |-> None,
      removedBy |-> NoUser, expiredAt |-> None, claimStatus |-> "none",
      claimId |-> NoClaim, announced |-> FALSE ]

\* A bounty that lasts two weeks instead of one.
NewBountyTwoWeeks(t, by) ==
    [NoBounty EXCEPT !.exists = TRUE, !.active = TRUE, !.startedAt = t,
                     !.endsAt = t + 2 * ONE_WEEK_MS]

\* A bounty that lasts one day instead of one week.
NewBountyOneDay(t, by) ==
    [NoBounty EXCEPT !.exists = TRUE, !.active = TRUE, !.startedAt = t,
                     !.endsAt = t + ONE_DAY_MS]

NewBounty(t, by) ==
    [NoBounty EXCEPT !.exists = TRUE, !.active = TRUE, !.startedAt = t,
                     !.endsAt = t + ONE_WEEK_MS]

NewRequest(id, st, name, by) ==
    [ id |-> id, status |-> st, tribeName |-> name, requestedBy |-> by,
      approvedAt |-> None, expiredAt |-> None, wfWarnedAt |-> None,
      bountyWarnedAt |-> None, bounty |-> NoBounty ]

NewClaim(id, rid, by) ==
    [ id |-> id, bountyRecordId |-> rid, submittedBy |-> by, status |-> "pending" ]

VARIABLES
    variant,      \* "index" (src/index.js) or "part" (src/unnamed/part_002)
    now,          \* Date.now()
    up,           \* the process is running
    crashes,      \* number of crashes so far
    boot,         \* position of the clientReady handler
    requests,     \* the in-memory `requests` object
    disk,         \* requests.json
    claims,       \* the in-memory `claims` object
    claimsDisk,   \* claims.json
    activeTimeouts,             \* requestId -> due time of the armed expiry timer
    activeBountyTimeouts,       \* requestId -> due time of the armed bounty expiry timer
    activeWfAlertTimeouts,      \* requestId -> due time of the armed White Flag warning
    activeBountyAlertTimeouts,  \* requestId -> due time of the armed bounty warning
    pending,      \* suspended handlers: what they resume with
    sweep,        \* locals of expireOverdueApprovalsOnStartup across its awaits
    out           \* what the last step replied and which notifications it emitted

timers == <<activeTimeouts, activeBountyTimeouts, activeWfAlertTimeouts,
            activeBountyAlertTimeouts>>
store == <<requests, disk, claims, claimsDisk>>
vars == <<variant, now, up, crashes, boot, requests, disk, claims, claimsDisk,
          activeTimeouts, activeBountyTimeouts, activeWfAlertTimeouts,
          activeBountyAlertTimeouts, pending, sweep, out>>

RequestIds == 1..MaxRequests
ClaimIds == 1..MaxClaims

Ids(rs) == DOMAIN rs

Min(S) == CHOOSE x \in S : \A y \in S : x <= y

Out(res, sent) == [res |-> res, sent |-> sent]

NoSweep == [todo |-> <<>>, changed |-> FALSE]

\* A timer table: for each request id the time its armed timer is due, or None.
NoTimers == [i \in RequestIds |-> None]
Max(a, b) == IF a >= b THEN a ELSE b

\* ---------------------------------------------------------------- helpers
isApprovedAndActive(req, t) ==
    /\ req.status = "approved"
    /\ IsNumber(req.approvedAt)
    /\ req.approvedAt + SEVEN_DAYS_MS > t

hasActiveBounty(req, t) ==
    /\ req.bounty.exists
    /\ req.bounty.active
    /\ IsNumber(req.bounty.endsAt)
    /\ req.bounty.endsAt > t

\* Object.values(requests) iterates in insertion order, which is id order
\* here: the first of the matching ids, or 0 (null) when there is none.
FirstMatch(hits) == IF hits = {} THEN 0 ELSE Min(hits)

\* The lookup testing the wrong status: it finds no pending request.
getPendingRequestForUserApproved(rs, userId) ==
    FirstMatch({i \in Ids(rs) : rs[i].requestedBy = userId /\ rs[i].status = "approved"})

getPendingRequestForUser(rs, userId) ==
    FirstMatch({i \in Ids(rs) : rs[i].requestedBy = userId /\ rs[i].status = "pending"})

getActiveApprovedForTribe(rs, tribeName, excludeId, t) ==
    LET key == normalizedTribeName[tribeName]
    IN FirstMatch({i \in Ids(rs) : /\ rs[i].id # excludeId
                                  /\ normalizedTribeName[rs[i].tribeName] = key
                                  /\ isApprovedAndActive(rs[i], t)})

getActiveBountyForTribe(rs, tribeName, t) ==
    LET key == normalizedTribeName[tribeName]
    IN FirstMatch({i \in Ids(rs) : /\ normalizedTribeName[rs[i].tribeName] = key
                                  /\ hasActiveBounty(rs[i], t)})

findActiveBountyByTribe(rs, tribeName, t) == getActiveBountyForTribe(rs, tribeName, t)

\* ------------------------------------------------------------------- Init
\* The clock values at which the process may be started.
StartTimes == {0, ONE_DAY_MS}

Init ==
    /\ variant \in {"index", "part"}
    /\ now \in StartTimes
    /\ up = TRUE
    /\ crashes = 0
    /\ boot = "ready"
    /\ requests = <<>>
    /\ disk = <<>>
    /\ claims = <<>>
    /\ claimsDisk = <<>>
    /\ activeTimeouts = NoTimers
    /\ activeBountyTimeouts = NoTimers
    /\ activeWfAlertTimeouts = NoTimers
    /\ activeBountyAlertTimeouts = NoTimers
    /\ pending = {}
    /\ sweep = NoSweep
    /\ out = Out("none", {})

\* ---------------------------------------------------------- timer arming
\* Each scheduler returns the timer table after the call; arming replaces the
\* entry (clearTimeout of the existing timer, then set). A timer armed with
\* delay d at time t is due at t + d.
scheduleExpiry(rs, tm, requestId, t) ==
    LET req == rs[requestId]
    IN IF req.status # "approved" \/ ~Truthy(req.approvedAt) THEN tm
       ELSE [tm EXCEPT ![requestId] = t + Max(0, req.approvedAt + SEVEN_DAYS_MS - t)]

scheduleBountyExpiry(rs, tm, requestId, t) ==
    LET req == rs[requestId]
    IN IF ~hasActiveBounty(req, t) THEN tm
       ELSE [tm EXCEPT ![requestId] = t + Max(0, req.bounty.endsAt - t)]

\* The end of the protection window, or None (null in the source).
isApprovedAndActiveWithEnds(req, t) ==
    IF req.status # "approved" \/ ~Truthy(req.approvedAt) THEN None
    ELSE IF req.approvedAt + SEVEN_DAYS_MS <= t THEN None
    ELSE req.approvedAt + SEVEN_DAYS_MS

scheduleWhiteFlagExpiryWarning(rs, tm, requestId, t) ==
    LET req == rs[requestId]
        endsAt == isApprovedAndActiveWithEnds(req, t)
    IN IF ~Truthy(endsAt) THEN tm
       ELSE IF Truthy(req.wfWarnedAt) THEN tm
       ELSE [tm EXCEPT ![requestId] = t + Max(0, (endsAt - ONE_DAY_MS) - t)]

\* The bounty warning scheduler without the check of the marker.
scheduleBountyExpiryWarningUnmarked(rs, tm, requestId, t) ==
    LET req == rs[requestId]
    IN IF ~hasActiveBounty(req, t) THEN tm
       ELSE [tm EXCEPT ![requestId] = t + Max(0, (req.bounty.endsAt - ONE_DAY_MS) - t)]

scheduleBountyExpiryWarning(rs, tm, requestId, t) ==
    LET req == rs[requestId]
    IN IF ~hasActiveBounty(req, t) THEN tm
       ELSE IF Truthy(req.bountyWarnedAt) THEN tm
       ELSE [tm EXCEPT ![requestId] = t + Max(0, (req.bounty.endsAt - ONE_DAY_MS) - t)]

Cancel(tm, requestId) == [tm EXCEPT ![requestId] = None]

\* ------------------------------------------------------- request handlers
\* Application modal submit. The handler awaits the member fetch first; from
\* readJson to persist() it is synchronous.
submitRequest(user, input) ==
    /\ up
    /\ LET tribe == Trim(input)
           rs == disk
           new == NewRequest(Len(rs) + 1, "pending", tribe, user)
       IN IF getPendingRequestForUser(rs, user) # 0
          THEN /\ requests' = rs
               /\ out' = Out("pending_exists", {})
               /\ UNCHANGED disk
          ELSE IF getActiveApprovedForTribe(rs, tribe, 0, now) # 0
          THEN /\ requests' = rs
               /\ out' = Out("tribe_active", {})
               /\ UNCHANGED disk
          ELSE /\ Len(rs) < MaxRequests
               /\ requests' = Append(rs, new)
               /\ disk' = Append(rs, new)
               /\ out' = Out("ok", {"application"})
    /\ UNCHANGED <<variant, now, up, crashes, boot, claims, claimsDisk, timers, pending, sweep>>

\* Admin approve button.
approveRequest(requestId) ==
    /\ up
    /\ requestId \in Ids(disk)
    /\ LET rs == disk
           req == rs[requestId]
           rs2 == [rs EXCEPT ![requestId].status = "approved",
                             ![requestId].approvedAt = now]
       IN IF req.status # "pending"
          THEN /\ requests' = rs
               /\ out' = Out("already", {})
               /\ UNCHANGED <<disk, timers>>
          ELSE IF getActiveApprovedForTribe(rs, req.tribeName, requestId, now) # 0
          THEN /\ requests' = rs
               /\ out' = Out("tribe_active", {})
               /\ UNCHANGED <<disk, timers>>
          ELSE /\ requests' = rs2
               /\ disk' = rs2
               /\ activeTimeouts' = scheduleExpiry(rs2, activeTimeouts, requestId, now)
               /\ IF variant = "index"
                  THEN /\ activeWfAlertTimeouts' =
                            scheduleWhiteFlagExpiryWarning(rs2, activeWfAlertTimeouts, requestId, now)
                       /\ out' = Out("ok", {"approved"})
                  ELSE \* scheduleWhiteFlagExpiryWarning is not defined in part_002:
                       \* the call throws and the handler's catch replies.
                       /\ UNCHANGED activeWfAlertTimeouts
                       /\ out' = Out("error", {})
               /\ UNCHANGED <<activeBountyTimeouts, activeBountyAlertTimeouts>>
    /\ UNCHANGED <<variant, now, up, crashes, boot, claims, claimsDisk, pending, sweep>>

\* Admin deny button.
denyRequest(requestId) ==
    /\ up
    /\ requestId \in Ids(disk)
    /\ LET rs == disk
           req == rs[requestId]
           rs2 == [rs EXCEPT ![requestId].status = "denied"]
       IN IF req.status # "pending"
          THEN /\ requests' = rs
               /\ out' = Out("already", {})
               /\ UNCHANGED disk
          ELSE /\ requests' = rs2
               /\ disk' = rs2
               /\ out' = Out("ok", {"denied"})
    /\ UNCHANGED <<variant, now, up, crashes, boot, claims, claimsDisk, timers, pending, sweep>>

\* Admin end-early button, up to its first await after persist().
endRequestEarly(requestId) ==
    /\ up
    /\ requestId \in Ids(disk)
    /\ LET rs == disk
           req == rs[requestId]
           req2 == [req EXCEPT !.status = "ended_early", !.bounty = NewBounty(now, Admin)]
           rs2 == [rs EXCEPT ![requestId] = req2]
       IN IF req.status # "approved"
          THEN /\ requests' = rs
               /\ out' = Out("not_approved", {})
               /\ UNCHANGED <<disk, timers, pending>>
          ELSE /\ activeTimeouts' = Cancel(activeTimeouts, requestId)
               /\ requests' = rs2
               /\ disk' = rs2
               /\ activeBountyTimeouts' =
                      scheduleBountyExpiry(rs2, activeBountyTimeouts, requestId, now)
               /\ IF variant = "index"
                  THEN /\ activeBountyAlertTimeouts' =
                            scheduleBountyExpiryWarning(rs2, activeBountyAlertTimeouts, requestId, now)
                       /\ pending' = pending \cup
                            {[kind |-> "endEarly", id |-> requestId, snap |-> req2]}
                       /\ out' = Out("suspended", {})
                  ELSE \* scheduleBountyExpiryWarning is not defined in part_002.
                       /\ UNCHANGED <<activeBountyAlertTimeouts, pending>>
                       /\ out' = Out("error", {})
               /\ UNCHANGED activeWfAlertTimeouts
    /\ UNCHANGED <<variant, now, up, crashes, boot, claims, claimsDisk, sweep>>

\* The end-early handler after the announcements were sent: it stores the
\* announcement reference on the `req` it holds and writes that object back.
endRequestEarlyResume(c) ==
    /\ up
    /\ c \in pending
    /\ c.kind = "endEarly"
    /\ LET req == [c.snap EXCEPT !.bounty.announced = TRUE]
           rs2 == [requests EXCEPT ![c.id] = req]
       IN /\ requests' = rs2
          /\ disk' = rs2
    /\ pending' = pending \ {c}
    /\ out' = Out("ok", {"open_season", "bounty_issued"})
    /\ UNCHANGED <<variant, now, up, crashes, boot, claims, claimsDisk, timers, sweep>>

\* ----------------------------------------------------------- /bounty add
addOrRefreshBounty(input) ==
    /\ up
    /\ variant = "index"
    /\ LET tribe == Trim(input)
           rs == disk
           existing == getActiveBountyForTribe(rs, tribe, now)
           old == rs[existing].bounty
           refreshed == [old EXCEPT !.active = TRUE,
                                    !.startedAt = IF Truthy(old.startedAt) THEN old.startedAt ELSE now,
                                    !.endsAt = now + ONE_WEEK_MS]
           rsR == [rs EXCEPT ![existing].bounty = refreshed]
           id == Len(rs) + 1
           record == [NewRequest(id, "bounty_only", tribe, Admin)
                        EXCEPT !.bounty = NewBounty(now, Admin)]
           rsC == Append(rs, record)
       IN IF existing # 0
          THEN /\ requests' = rsR
               /\ disk' = rsR
               /\ activeBountyTimeouts' =
                      scheduleBountyExpiry(rsR, activeBountyTimeouts, existing, now)
               /\ activeBountyAlertTimeouts' =
                      scheduleBountyExpiryWarning(rsR, activeBountyAlertTimeouts, existing, now)
               /\ out' = Out("refreshed", {})
          ELSE /\ Len(rs) < MaxRequests
               /\ requests' = rsC
               /\ disk' = rsC
               /\ activeBountyTimeouts' =
                      scheduleBountyExpiry(rsC, activeBountyTimeouts, id, now)
               /\ activeBountyAlertTimeouts' =
                      scheduleBountyExpiryWarning(rsC, activeBountyAlertTimeouts, id, now)
               \* After the announcement is sent the handler reads `req`, which
               \* is not in scope: ReferenceError, caught, "Something went wrong."
               /\ out' = Out("error", {"bounty_issued"})
    /\ UNCHANGED <<variant, now, up, crashes, boot, claims, claimsDisk, pending, sweep,
                   activeTimeouts, activeWfAlertTimeouts>>

\* -------------------------------------------------------- /bounty remove
\* `target` is 0 when the lookup found nothing.

\* /bounty remove without the test that the bounty is active.
RemoveTargetUnguarded(rs, target) ==
    LET t2 == [rs[target] EXCEPT !.bounty.active = FALSE,
                                 !.bounty.removedAt = now,
                                 !.bounty.removedBy = Admin]
        rs2 == [rs EXCEPT ![target] = t2]
    IN IF target = 0 \/ ~rs[target].bounty.exists
       THEN /\ requests' = rs
            /\ out' = Out("no_active_bounty", {})
            /\ UNCHANGED <<disk, timers, pending>>
       ELSE /\ activeBountyTimeouts' = Cancel(activeBountyTimeouts, target)
            /\ requests' = rs2
            /\ IF rs[target].bounty.announced
               THEN \* awaits the announcement message before persist()
                    /\ pending' = pending \cup
                          {[kind |-> "remove", id |-> target, snap |-> t2]}
                    /\ out' = Out("suspended", {})
                    /\ UNCHANGED disk
               ELSE /\ disk' = rs2
                    /\ out' = Out("ok", {"bounty_canceled"})
                    /\ UNCHANGED pending
            /\ UNCHANGED <<activeTimeouts, activeWfAlertTimeouts, activeBountyAlertTimeouts>>

RemoveTarget(rs, target) ==
    LET t2 == [rs[target] EXCEPT !.bounty.active = FALSE,
                                 !.bounty.removedAt = now,
                                 !.bounty.removedBy = Admin]
        rs2 == [rs EXCEPT ![target] = t2]
    IN IF target = 0 \/ ~rs[target].bounty.exists \/ ~rs[target].bounty.active
       THEN /\ requests' = rs
            /\ out' = Out("no_active_bounty", {})
            /\ UNCHANGED <<disk, timers, pending>>
       ELSE /\ activeBountyTimeouts' = Cancel(activeBountyTimeouts, target)
            /\ requests' = rs2
            /\ IF rs[target].bounty.announced
               THEN \* awaits the announcement message before persist()
                    /\ pending' = pending \cup
                          {[kind |-> "remove", id |-> target, snap |-> t2]}
                    /\ out' = Out("suspended", {})
                    /\ UNCHANGED disk
               ELSE /\ disk' = rs2
                    /\ out' = Out("ok", {"bounty_canceled"})
                    /\ UNCHANGED pending
            /\ UNCHANGED <<activeTimeouts, activeWfAlertTimeouts, activeBountyAlertTimeouts>>

removeBountyById(id) ==
    /\ up
    /\ variant = "index"
    /\ RemoveTarget(disk, IF id \in Ids(disk) THEN id ELSE 0)
    /\ UNCHANGED <<variant, now, up, crashes, boot, claims, claimsDisk, sweep>>

removeBountyByTribe(input) ==
    /\ up
    /\ variant = "index"
    /\ RemoveTarget(disk, getActiveBountyForTribe(disk, Trim(input), now))
    /\ UNCHANGED <<variant, now, up, crashes, boot, claims, claimsDisk, sweep>>

removeBountyResume(c) ==
    /\ up
    /\ c \in pending
    /\ c.kind = "remove"
    /\ LET rs2 == [requests EXCEPT ![c.id] = c.snap]
       IN /\ requests' = rs2
          /\ disk' = rs2
    /\ pending' = pending \ {c}
    /\ out' = Out("ok", {"bounty_canceled"})
    /\ UNCHANGED <<variant, now, up, crashes, boot, claims, claimsDisk, timers, sweep>>

\* ------------------------------------------------------------------ claims
\* /bounty claim (index.js only).
bountyClaimCommand(input) ==
    /\ up
    /\ variant = "index"
    /\ LET rs == disk
           cs == claimsDisk
           target == findActiveBountyByTribe(rs, Trim(input), now)
           cs2 == Append(cs, NewClaim(Len(cs) + 1, target, Admin))
       IN /\ requests' = rs
          /\ IF target = 0
             THEN /\ claims' = cs
                  /\ out' = Out("no_active_bounty", {})
                  /\ UNCHANGED claimsDisk
             ELSE /\ Len(cs) < MaxClaims
                  /\ claims' = cs2
                  /\ claimsDisk' = cs2
                  /\ out' = Out("ok", {"claim_submitted"})
    /\ UNCHANGED <<variant, now, up, crashes, boot, disk, timers, pending, sweep>>

\* Part of the bounty_claim_submit modal handler both variants share: the
\* guard, and the claim it builds.
ClaimGuard(rs, recordId) ==
    IF recordId \notin Ids(rs) \/ ~hasActiveBounty(rs[recordId], now) THEN "inactive"
    ELSE IF variant = "part" /\ rs[recordId].bounty.claimStatus = "pending" THEN "locked"
    ELSE IF variant = "part" /\ rs[recordId].bounty.claimStatus = "approved" THEN "claimed"
    ELSE "ok"

\* The requests the modal handler persists: part_002 locks the bounty.
LockBounty(rs, recordId, claimId) ==
    IF variant = "part"
    THEN [rs EXCEPT ![recordId].bounty.claimStatus = "pending",
                    ![recordId].bounty.claimId = claimId]
    ELSE rs

submitClaim(recordId, user) ==
    /\ up
    /\ LET rs == disk
           cs == claimsDisk
           claimId == Len(cs) + 1
           cs2 == Append(cs, NewClaim(claimId, recordId, user))
           g == ClaimGuard(rs, recordId)
       IN IF g # "ok"
          THEN /\ requests' = rs
               /\ claims' = cs
               /\ out' = Out(g, {})
               /\ UNCHANGED <<disk, claimsDisk>>
          ELSE /\ Len(cs) < MaxClaims
               /\ claims' = cs2
               /\ claimsDisk' = cs2
               /\ requests' = LockBounty(rs, recordId, claimId)
               /\ disk' = LockBounty(rs, recordId, claimId)
               /\ out' = Out("ok", {"claim_submitted"})
    /\ UNCHANGED <<variant, now, up, crashes, boot, timers, pending, sweep>>

\* part_002 writes requests.json (the lock) and then claims.json (the claim),
\* lines 1128 and 1130. The process dies between the two writes.
submitClaimCrash(recordId, user) ==
    /\ up
    /\ variant = "part"
    /\ crashes < MaxCrashes
    /\ ClaimGuard(disk, recordId) = "ok"
    /\ Len(claimsDisk) < MaxClaims
    /\ disk' = LockBounty(disk, recordId, Len(claimsDisk) + 1)
    /\ up' = FALSE
    /\ crashes' = crashes + 1
    /\ boot' = "down"
    /\ requests' = <<>>
    /\ claims' = <<>>
    /\ activeTimeouts' = NoTimers
    /\ activeBountyTimeouts' = NoTimers
    /\ activeWfAlertTimeouts' = NoTimers
    /\ activeBountyAlertTimeouts' = NoTimers
    /\ pending' = {}
    /\ sweep' = NoSweep
    /\ out' = Out("none", {})
    /\ UNCHANGED <<variant, now, claimsDisk>>

\* Claim approve button of index.js.
CloseBounty(rs, recordId, claimId) ==
    [rs EXCEPT ![recordId].bounty.active = FALSE,
               ![recordId].bounty.claimedAt = now,
               ![recordId].bounty.claimedBy = Admin,
               ![recordId].bounty.claimId = claimId]

approveClaimIndex(claimId) ==
    /\ up
    /\ variant = "index"
    /\ LET cs == claimsDisk
           rs == disk
           rid == cs[claimId].bountyRecordId
           cs2 == [cs EXCEPT ![claimId].status = "approved"]
       IN IF claimId \notin Ids(cs)
          THEN /\ claims' = cs /\ requests' = rs
               /\ out' = Out("not_found", {})
               /\ UNCHANGED <<disk, claimsDisk, timers>>
          ELSE IF cs[claimId].status # "pending"
          THEN /\ claims' = cs /\ requests' = rs
               /\ out' = Out("already", {})
               /\ UNCHANGED <<disk, claimsDisk, timers>>
          ELSE /\ claims' = cs2
               /\ claimsDisk' = cs2
               /\ IF rs[rid].bounty.exists
                  THEN /\ activeBountyTimeouts' = Cancel(activeBountyTimeouts, rid)
                       /\ activeBountyAlertTimeouts' = Cancel(activeBountyAlertTimeouts, rid)
                       /\ requests' = CloseBounty(rs, rid, claimId)
                       /\ disk' = CloseBounty(rs, rid, claimId)
                       /\ out' = Out("ok", {"claim_approved"})
                  ELSE /\ requests' = rs
                       /\ out' = Out("ok", {})
                       /\ UNCHANGED <<disk, activeBountyTimeouts, activeBountyAlertTimeouts>>
               /\ UNCHANGED <<activeTimeouts, activeWfAlertTimeouts>>
    /\ UNCHANGED <<variant, now, up, crashes, boot, pending, sweep>>

denyClaimIndex(claimId) ==
    /\ up
    /\ variant = "index"
    /\ LET cs == claimsDisk
           rs == disk
           cs2 == [cs EXCEPT ![claimId].status = "denied"]
       IN /\ requests' = rs
          /\ IF claimId \notin Ids(cs)
             THEN /\ claims' = cs
                  /\ out' = Out("not_found", {})
                  /\ UNCHANGED claimsDisk
             ELSE IF cs[claimId].status # "pending"
             THEN /\ claims' = cs
                  /\ out' = Out("already", {})
                  /\ UNCHANGED claimsDisk
             ELSE /\ claims' = cs2
                  /\ claimsDisk' = cs2
                  /\ out' = Out("ok", {})
    /\ UNCHANGED <<variant, now, up, crashes, boot, disk, timers, pending, sweep>>

\* SetClaimStatus without the write to the bounty's claimStatus.
SetClaimStatusKeepsLock(claimId, st) ==
    LET cs2 == [claims EXCEPT ![claimId].status = st]
    IN IF claimId \notin Ids(claims)
       THEN /\ out' = Out("not_found", {})
            /\ UNCHANGED store
       ELSE /\ claims' = cs2
            /\ claimsDisk' = cs2
            /\ requests' = requests
            /\ disk' = requests
            /\ out' = Out("ok", IF st = "approved" THEN {"claim_approved"} ELSE {})

\* approveBountyClaim of part_002 (st = "approved") and its deny branch
\* (st = "denied"): both work on the in-memory objects and check no status.
SetClaimStatus(claimId, st) ==
    LET rid == claims[claimId].bountyRecordId
        cs2 == [claims EXCEPT ![claimId].status = st]
        rs2 == [requests EXCEPT ![rid].bounty.claimStatus = st]
    IN IF claimId \notin Ids(claims)
       THEN /\ out' = Out("not_found", {})
            /\ UNCHANGED store
       ELSE /\ claims' = cs2
            /\ claimsDisk' = cs2
            /\ requests' = rs2
            /\ disk' = rs2
            /\ out' = Out("ok", IF st = "approved" THEN {"claim_approved"} ELSE {})

approveBountyClaim(claimId) ==
    /\ up
    /\ variant = "part"
    /\ SetClaimStatus(claimId, "approved")
    /\ UNCHANGED <<variant, now, up, crashes, boot, timers, pending, sweep>>

denyClaimPart(claimId) ==
    /\ up
    /\ variant = "part"
    /\ SetClaimStatus(claimId, "denied")
    /\ UNCHANGED <<variant, now, up, crashes, boot, timers, pending, sweep>>

\* ---------------------------------------------------------- timer firing
Due(tm, id) == tm[id] # None /\ tm[id] <= now

\* scheduleExpiry's callback.
ExpiryTimerFires(requestId) ==
    /\ up
    /\ Due(activeTimeouts, requestId)
    /\ LET rs == disk
           r == rs[requestId]
           rs2 == [rs EXCEPT ![requestId].status = "expired",
                             ![requestId].expiredAt = now]
       IN IF r.status # "approved"
          THEN /\ requests' = rs
               /\ out' = Out("noop", {})
               /\ UNCHANGED disk
          ELSE /\ requests' = rs2
               /\ disk' = rs2
               /\ out' = Out("ok", {"expired"})
    /\ activeTimeouts' = Cancel(activeTimeouts, requestId)
    /\ UNCHANGED <<variant, now, up, crashes, boot, claims, claimsDisk, pending, sweep,
                   activeBountyTimeouts, activeWfAlertTimeouts, activeBountyAlertTimeouts>>

\* scheduleBountyExpiry's callback.
BountyExpiryTimerFires(requestId) ==
    /\ up
    /\ Due(activeBountyTimeouts, requestId)
    /\ LET rs == disk
           r == rs[requestId]
           rs2 == [rs EXCEPT ![requestId].bounty.active = FALSE,
                             ![requestId].bounty.expiredAt = now]
       IN IF ~r.bounty.exists
             \/ ~(r.bounty.active /\ IsNumber(r.bounty.endsAt) /\ r.bounty.endsAt <= now)
          THEN /\ requests' = rs
               /\ out' = Out("noop", {})
               /\ UNCHANGED disk
          ELSE /\ requests' = rs2
               /\ disk' = rs2
               /\ out' = Out("ok", {"bounty_closed"})
    /\ activeBountyTimeouts' = Cancel(activeBountyTimeouts, requestId)
    /\ UNCHANGED <<variant, now, up, crashes, boot, claims, claimsDisk, pending, sweep,
                   activeTimeouts, activeWfAlertTimeouts, activeBountyAlertTimeouts>>

\* The white-flag warning callback without the check of the status: it warns
\* for whatever record the timer was armed for.
WfWarningTimerFiresStale(requestId) ==
    /\ up
    /\ Due(activeWfAlertTimeouts, requestId)
    /\ LET rs == disk
           r == rs[requestId]
           rs2 == [rs EXCEPT ![requestId].wfWarnedAt = now]
       IN IF Truthy(r.wfWarnedAt)
          THEN /\ requests' = rs
               /\ out' = Out("noop", {})
               /\ UNCHANGED disk
          ELSE /\ requests' = rs2
               /\ disk' = rs2
               /\ out' = Out("ok", {"wf_warning"})
    /\ activeWfAlertTimeouts' = Cancel(activeWfAlertTimeouts, requestId)
    /\ UNCHANGED <<variant, now, up, crashes, boot, claims, claimsDisk, pending, sweep,
                   activeTimeouts, activeBountyTimeouts, activeBountyAlertTimeouts>>

\* The white-flag warning callback without the check of the marker, left
\* armed after it has run: it fires again for a record already warned.
WfWarningTimerFiresAgain(requestId) ==
    /\ up
    /\ Due(activeWfAlertTimeouts, requestId)
    /\ LET rs == disk
           r == rs[requestId]
           endsAt2 == isApprovedAndActiveWithEnds(r, now)
           rs2 == [rs EXCEPT ![requestId].wfWarnedAt = now]
       IN IF \/ ~Truthy(endsAt2)
             \/ now < endsAt2 - ONE_DAY_MS
             \/ now >= endsAt2
          THEN /\ requests' = rs
               /\ out' = Out("noop", {})
               /\ activeWfAlertTimeouts' = Cancel(activeWfAlertTimeouts, requestId)
               /\ UNCHANGED disk
          ELSE /\ requests' = rs2
               /\ disk' = rs2
               /\ out' = Out("ok", {"wf_warning"})
               /\ UNCHANGED activeWfAlertTimeouts
    /\ UNCHANGED <<variant, now, up, crashes, boot, claims, claimsDisk, pending, sweep,
                   activeTimeouts, activeBountyTimeouts, activeBountyAlertTimeouts>>

\* scheduleWhiteFlagExpiryWarning's callback.
WfWarningTimerFires(requestId) ==
    /\ up
    /\ Due(activeWfAlertTimeouts, requestId)
    /\ LET rs == disk
           r == rs[requestId]
           endsAt2 == isApprovedAndActiveWithEnds(r, now)
           rs2 == [rs EXCEPT ![requestId].wfWarnedAt = now]
       IN IF \/ ~Truthy(endsAt2)
             \/ Truthy(r.wfWarnedAt)
             \/ now < endsAt2 - ONE_DAY_MS
             \/ now >= endsAt2
          THEN /\ requests' = rs
               /\ out' = Out("noop", {})
               /\ UNCHANGED disk
          ELSE /\ requests' = rs2
               /\ disk' = rs2
               /\ out' = Out("ok", {"wf_warning"})
    /\ activeWfAlertTimeouts' = Cancel(activeWfAlertTimeouts, requestId)
    /\ UNCHANGED <<variant, now, up, crashes, boot, claims, claimsDisk, pending, sweep,
                   activeTimeouts, activeBountyTimeouts, activeBountyAlertTimeouts>>

\* The bounty warning callback acting on the record as it was when the timer
\* was armed: no re-validation of the stored record.
BountyWarningTimerFiresUnchecked(requestId) ==
    /\ up
    /\ Due(activeBountyAlertTimeouts, requestId)
    /\ requests' = [disk EXCEPT ![requestId].bountyWarnedAt = now]
    /\ disk' = [disk EXCEPT ![requestId].bountyWarnedAt = now]
    /\ out' = Out("ok", {"bounty_warning"})
    /\ activeBountyAlertTimeouts' = Cancel(activeBountyAlertTimeouts, requestId)
    /\ UNCHANGED <<variant, now, up, crashes, boot, claims, claimsDisk, pending, sweep,
                   activeTimeouts, activeBountyTimeouts, activeWfAlertTimeouts>>

\* scheduleBountyExpiryWarning's callback.
BountyWarningTimerFires(requestId) ==
    /\ up
    /\ Due(activeBountyAlertTimeouts, requestId)
    /\ LET rs == disk
           r == rs[requestId]
           rs2 == [rs EXCEPT ![requestId].bountyWarnedAt = now]
       IN IF \/ ~hasActiveBounty(r, now)
             \/ Truthy(r.bountyWarnedAt)
             \/ now < r.bounty.endsAt - ONE_DAY_MS
             \/ now >= r.bounty.endsAt
          THEN /\ requests' = rs
               /\ out' = Out("noop", {})
               /\ UNCHANGED disk
          ELSE /\ requests' = rs2
               /\ disk' = rs2
               /\ out' = Out("ok", {"bounty_warning"})
    /\ activeBountyAlertTimeouts' = Cancel(activeBountyAlertTimeouts, requestId)
    /\ UNCHANGED <<variant, now, up, crashes, boot, claims, claimsDisk, pending, sweep,
                   activeTimeouts, activeBountyTimeouts, activeWfAlertTimeouts>>

\* ------------------------------------------------------------------ clock
ArmedDues ==
    {activeTimeouts[i] : i \in RequestIds} \cup
    {activeBountyTimeouts[i] : i \in RequestIds} \cup
    {activeWfAlertTimeouts[i] : i \in RequestIds} \cup
    {activeBountyAlertTimeouts[i] : i \in RequestIds}

\* Time passes. A timer fires when it is due, so the clock does not move past
\* the due time of an armed timer; a suspended handler resumes within the
\* same instant.
Tick ==
    /\ now + ONE_DAY_MS <= MaxTime
    /\ boot \in {"ready", "down"}
    /\ pending = {}
    /\ \A d \in ArmedDues \ {None} : d > now
    /\ now' = now + ONE_DAY_MS
    /\ out' = Out("none", {})
    /\ UNCHANGED <<variant, up, crashes, boot, store, timers, pending, sweep>>

\* Time passes until the next armed timer is due.
TickToTimer ==
    /\ boot \in {"ready", "down"}
    /\ pending = {}
    /\ ArmedDues \ {None} # {}
    /\ \A d \in ArmedDues \ {None} : d > now
    /\ Min(ArmedDues \ {None}) <= MaxTime
    /\ now' = Min(ArmedDues \ {None})
    /\ out' = Out("none", {})
    /\ UNCHANGED <<variant, up, crashes, boot, store, timers, pending, sweep>>

\* ------------------------------------------------------ crash and restart
\* The process dies: everything in memory is gone, the two files stay.
Crash ==
    /\ up
    /\ crashes < MaxCrashes
    /\ up' = FALSE
    /\ crashes' = crashes + 1
    /\ boot' = "down"
    /\ requests' = <<>>
    /\ claims' = <<>>
    /\ activeTimeouts' = NoTimers
    /\ activeBountyTimeouts' = NoTimers
    /\ activeWfAlertTimeouts' = NoTimers
    /\ activeBountyAlertTimeouts' = NoTimers
    /\ pending' = {}
    /\ sweep' = NoSweep
    /\ out' = Out("none", {})
    /\ UNCHANGED <<variant, now, disk, claimsDisk>>

\* Module load: the two files are read; index.js then starts its clientReady
\* handler, which first awaits registerSlashCommands().
Restart ==
    /\ boot = "down"
    /\ up' = TRUE
    /\ requests' = disk
    /\ claims' = claimsDisk
    /\ boot' = IF variant = "index" THEN "registering" ELSE "ready"
    /\ out' = Out("none", {})
    /\ UNCHANGED <<variant, now, crashes, disk, claimsDisk, timers, pending, sweep>>

\* expireOverdueApprovalsOnStartup up to its first await.
SweepStart ==
    /\ boot = "registering"
    /\ requests' = disk
    /\ boot' = "fetching"
    /\ sweep' = NoSweep
    /\ out' = Out("none", {})
    /\ UNCHANGED <<variant, now, up, crashes, disk, claims, claimsDisk, timers, pending>>

Overdue(r) ==
    r.status = "approved" /\ Truthy(r.approvedAt) /\ r.approvedAt + SEVEN_DAYS_MS <= now

\* The entries the loop still has to visit: taken from `requests` when the
\* loop starts, afterwards what is left of them.
SweepTodo == IF boot = "fetching" THEN requests ELSE sweep.todo

RECURSIVE SkipNotOverdue(_)
SkipNotOverdue(todo) ==
    IF todo = <<>> THEN <<>>
    ELSE IF Overdue(Head(todo)) THEN todo ELSE SkipNotOverdue(Tail(todo))

\* One turn of the loop that finds an overdue approval: the entry is marked
\* expired in memory and the handler awaits the notification.
SweepExpireOne ==
    /\ boot \in {"fetching", "looping"}
    /\ LET todo == SkipNotOverdue(SweepTodo)
           r == [Head(todo) EXCEPT !.status = "expired", !.expiredAt = now]
       IN /\ todo # <<>>
          /\ requests' = [requests EXCEPT ![r.id] = r]
          /\ sweep' = [todo |-> Tail(todo), changed |-> TRUE]
    /\ boot' = "looping"
    /\ out' = Out("ok", {"expired_offline"})
    /\ UNCHANGED <<variant, now, up, crashes, disk, claims, claimsDisk, timers, pending>>

\* expireOverdueBountiesOnStartup with a strict comparison: a bounty whose end
\* time is the restart time is left active.
ExpireOverdueBountiesLate(rs) ==
    [i \in Ids(rs) |->
        IF rs[i].bounty.exists /\ rs[i].bounty.active /\ IsNumber(rs[i].bounty.endsAt)
           /\ rs[i].bounty.endsAt < now
        THEN [rs[i] EXCEPT !.bounty.active = FALSE, !.bounty.expiredAt = now]
        ELSE rs[i]]

\* expireOverdueBountiesOnStartup on the records rs.
ExpireOverdueBounties(rs) ==
    [i \in Ids(rs) |->
        IF rs[i].bounty.exists /\ rs[i].bounty.active /\ IsNumber(rs[i].bounty.endsAt)
           /\ rs[i].bounty.endsAt <= now
        THEN [rs[i] EXCEPT !.bounty.active = FALSE, !.bounty.expiredAt = now]
        ELSE rs[i]]

\* The re-schedule loop of clientReady over the records rs. A scheduler call
\* touches the timer of its own record only.
RescheduleApproved(rs, i) == i \in Ids(rs) /\ isApprovedAndActive(rs[i], now)

RescheduleBounty(rs, i) == i \in Ids(rs) /\ hasActiveBounty(rs[i], now)

\* The loop found no further overdue approval: persist() if anything changed,
\* then expireOverdueBountiesOnStartup and the re-schedule loop, which run
\* without a further await that does I/O.
SweepFinish ==
    /\ boot \in {"fetching", "looping"}
    /\ SkipNotOverdue(SweepTodo) = <<>>
    /\ LET changed == boot = "looping" /\ sweep.changed
           d1 == IF changed THEN requests ELSE disk
           d2 == ExpireOverdueBounties(d1)
       IN /\ requests' = d2
          /\ disk' = d2
          /\ activeTimeouts' =
                [i \in RequestIds |->
                    IF RescheduleApproved(d2, i)
                    THEN scheduleExpiry(d2, activeTimeouts, i, now)[i]
                    ELSE activeTimeouts[i]]
          /\ activeWfAlertTimeouts' =
                [i \in RequestIds |->
                    IF RescheduleApproved(d2, i)
                    THEN scheduleWhiteFlagExpiryWarning(d2, activeWfAlertTimeouts, i, now)[i]
                    ELSE activeWfAlertTimeouts[i]]
          /\ activeBountyTimeouts' =
                [i \in RequestIds |->
                    IF RescheduleBounty(d2, i)
                    THEN scheduleBountyExpiry(d2, activeBountyTimeouts, i, now)[i]
                    ELSE activeBountyTimeouts[i]]
          /\ activeBountyAlertTimeouts' =
                [i \in RequestIds |->
                    IF RescheduleBounty(d2, i)
                    THEN scheduleBountyExpiryWarning(d2, activeBountyAlertTimeouts, i, now)[i]
                    ELSE activeBountyAlertTimeouts[i]]
    /\ boot' = "ready"
    /\ sweep' = NoSweep
    /\ out' = Out("none", {})
    /\ UNCHANGED <<variant, now, up, crashes, claims, claimsDisk, pending>>

\* The notification awaited in the loop is rejected: the catch block of
\* expireOverdueApprovalsOnStartup ends the function before `if (changed)
\* persist()`.  expireOverdueBountiesOnStartup then reads the file again, and
\* the re-schedule loop follows.
SweepSendFails ==
    /\ boot = "looping"
    /\ LET d2 == ExpireOverdueBounties(disk)
       IN /\ requests' = d2
          /\ disk' = d2
          /\ activeTimeouts' =
                [i \in RequestIds |->
                    IF RescheduleApproved(d2, i)
                    THEN scheduleExpiry(d2, activeTimeouts, i, now)[i]
                    ELSE activeTimeouts[i]]
          /\ activeWfAlertTimeouts' =
                [i \in RequestIds |->
                    IF RescheduleApproved(d2, i)
                    THEN scheduleWhiteFlagExpiryWarning(d2, activeWfAlertTimeouts, i, now)[i]
                    ELSE activeWfAlertTimeouts[i]]
          /\ activeBountyTimeouts' =
                [i \in RequestIds |->
                    IF RescheduleBounty(d2, i)
                    THEN scheduleBountyExpiry(d2, activeBountyTimeouts, i, now)[i]
                    ELSE activeBountyTimeouts[i]]
          /\ activeBountyAlertTimeouts' =
                [i \in RequestIds |->
                    IF RescheduleBounty(d2, i)
                    THEN scheduleBountyExpiryWarning(d2, activeBountyAlertTimeouts, i, now)[i]
                    ELSE activeBountyAlertTimeouts[i]]
    /\ boot' = "ready"
    /\ sweep' = NoSweep
    /\ out' = Out("error", {})
    /\ UNCHANGED <<variant, now, up, crashes, claims, claimsDisk, pending>>

\* ---------------------------------------------------------- specifications
\* The request lifecycle with crashes and restarts, on a clock of whole days.
Next ==
    \/ \E u \in Users, n \in TribeInputs : submitRequest(u, n)
    \/ \E i \in RequestIds : approveRequest(i)
    \/ \E i \in RequestIds : denyRequest(i)
    \/ \E i \in RequestIds : ExpiryTimerFires(i)
    \/ \E i \in RequestIds : WfWarningTimerFires(i)
    \/ Tick
    \/ Crash
    \/ Restart
    \/ SweepStart
    \/ SweepExpireOne
    \/ SweepFinish

Spec == Init /\ [][Next]_vars

OneName == {<<"a", " ", "b">>}

\* The bounty lifecycle: one applicant, every way a bounty is issued,
\* refreshed and removed; the clock moves from timer to timer.
NextBounty ==
    \/ \E n \in OneName : submitRequest("u1", n)
    \/ \E i \in RequestIds : approveRequest(i)
    \/ \E i \in RequestIds : endRequestEarly(i)
    \/ \E c \in pending : endRequestEarlyResume(c)
    \/ \E n \in TribeInputs : addOrRefreshBounty(n)
    \/ \E i \in RequestIds : removeBountyById(i)
    \/ \E n \in TribeInputs : removeBountyByTribe(n)
    \/ \E c \in pending : removeBountyResume(c)
    \/ \E i \in RequestIds : ExpiryTimerFires(i)
    \/ \E i \in RequestIds : BountyExpiryTimerFires(i)
    \/ \E i \in RequestIds : WfWarningTimerFires(i)
    \/ \E i \in RequestIds : BountyWarningTimerFires(i)
    \/ TickToTimer

SpecBounty == Init /\ [][NextBounty]_vars

\* Claims on bounties issued by ending a White Flag early.
NextClaims ==
    \/ \E n \in OneName : submitRequest("u1", n)
    \/ \E i \in RequestIds : approveRequest(i)
    \/ \E i \in RequestIds : endRequestEarly(i)
    \/ \E c \in pending : endRequestEarlyResume(c)
    \/ \E n \in OneName : bountyClaimCommand(n)
    \/ \E i \in RequestIds, u \in Users : submitClaim(i, u)
    \/ \E i \in RequestIds, u \in Users : submitClaimCrash(i, u)
    \/ \E c \in ClaimIds : approveClaimIndex(c)
    \/ \E c \in ClaimIds : denyClaimIndex(c)
    \/ \E c \in ClaimIds : approveBountyClaim(c)
    \/ \E c \in ClaimIds : denyClaimPart(c)
    \/ \E i \in RequestIds : ExpiryTimerFires(i)
    \/ \E i \in RequestIds : BountyExpiryTimerFires(i)
    \/ \E i \in RequestIds : WfWarningTimerFires(i)
    \/ \E i \in RequestIds : BountyWarningTimerFires(i)
    \/ TickToTimer
    \/ Restart

SpecClaims == Init /\ [][NextClaims]_vars

\* The restart behaviour of one white-flag application: it is approved, ended
\* early or left to expire, its bounty is refreshed, while days pass and the
\* process crashes and restarts (clientReady and its start-up sweep).
NextRestart ==
    \/ \E n \in OneName : Ids(disk) = {} /\ submitRequest("u1", n)
    \/ \E i \in RequestIds : approveRequest(i)
    \/ \E i \in RequestIds : endRequestEarly(i)
    \/ \E c \in pending : endRequestEarlyResume(c)
    \/ \E n \in OneName : addOrRefreshBounty(n)
    \/ \E i \in RequestIds : ExpiryTimerFires(i)
    \/ \E i \in RequestIds : BountyExpiryTimerFires(i)
    \/ \E i \in RequestIds : WfWarningTimerFires(i)
    \/ \E i \in RequestIds : BountyWarningTimerFires(i)
    \/ Tick
    \/ Crash
    \/ Restart
    \/ SweepStart
    \/ SweepExpireOne
    \/ SweepFinish

SpecRestart == Init /\ [][NextRestart]_vars

\* The schedule under which the process recovers: a process that is down is
\* restarted, clientReady runs to its end, a suspended handler resumes, a due
\* timer fires, and time passes.
Recovers ==
    /\ WF_vars(Restart)
    /\ WF_vars(SweepStart)
    /\ WF_vars(SweepExpireOne)
    /\ WF_vars(SweepFinish)
    /\ WF_vars(\E c \in pending : endRequestEarlyResume(c))
    /\ WF_vars(Tick)
    /\ \A i \in RequestIds :
           /\ WF_vars(ExpiryTimerFires(i))
           /\ WF_vars(BountyExpiryTimerFires(i))
           /\ WF_vars(WfWarningTimerFires(i))
           /\ WF_vars(BountyWarningTimerFires(i))

FairRestart == SpecRestart /\ Recovers

\* Bounties with their claims and their removal: one application is ended
\* early, claims on its bounty are submitted and decided and the bounty is
\* removed, while the handlers suspended at an await resume in any order.
NextRemove ==
    \/ \E n \in OneName : Ids(disk) = {} /\ submitRequest("u1", n)
    \/ \E i \in RequestIds : approveRequest(i)
    \/ \E i \in RequestIds : endRequestEarly(i)
    \/ \E c \in pending : endRequestEarlyResume(c)
    \/ \E i \in RequestIds : removeBountyById(i)
    \/ \E c \in pending : removeBountyResume(c)
    \/ \E i \in RequestIds : submitClaim(i, "u2")
    \/ \E c \in ClaimIds : approveClaimIndex(c)
    \/ \E c \in ClaimIds : denyClaimIndex(c)
    \/ \E i \in RequestIds : ExpiryTimerFires(i)
    \/ \E i \in RequestIds : BountyExpiryTimerFires(i)
    \/ \E i \in RequestIds : WfWarningTimerFires(i)
    \/ \E i \in RequestIds : BountyWarningTimerFires(i)
    \/ TickToTimer

SpecRemove == Init /\ [][NextRemove]_vars

\* One outage: applications are submitted and approved in the first session,
\* the process crashes, days pass while it is down, and once it is back
\* admins end requests early while clientReady runs its start-up sweep.
NextOutage ==
    \/ \E u \in Users, n \in TribeInputs : crashes = 0 /\ submitRequest(u, n)
    \/ \E i \in RequestIds : crashes = 0 /\ approveRequest(i)
    \/ \E i \in RequestIds : crashes > 0 /\ endRequestEarly(i)
    \/ \E c \in pending : endRequestEarlyResume(c)
    \/ \E i \in RequestIds : WfWarningTimerFires(i)
    \/ boot = "down" /\ Tick
    \/ Crash
    \/ Restart
    \/ SweepStart
    \/ SweepExpireOne
    \/ SweepFinish
    \/ SweepSendFails

SpecOutage == Init /\ [][NextOutage]_vars

\* The clock of the worked example: Date.now() goes from 0 to 100000 ms.
ExampleTime == 100000

TickExample ==
    /\ now = 0
    /\ pending = {}
    /\ now' = ExampleTime
    /\ out' = Out("none", {})
    /\ UNCHANGED <<variant, up, crashes, boot, store, timers, pending, sweep>>

\* Applications decided and ended early on the clock of the worked example,
\* with the timers they arm.
NextExample ==
    \/ \E u \in Users, n \in TribeInputs : submitRequest(u, n)
    \/ \E i \in RequestIds : approveRequest(i)
    \/ \E i \in RequestIds : endRequestEarly(i)
    \/ \E c \in pending : endRequestEarlyResume(c)
    \/ \E i \in RequestIds : ExpiryTimerFires(i)
    \/ \E i \in RequestIds : BountyExpiryTimerFires(i)
    \/ \E i \in RequestIds : WfWarningTimerFires(i)
    \/ \E i \in RequestIds : BountyWarningTimerFires(i)
    \/ TickExample
    \/ TickToTimer

SpecExample == Init /\ [][NextExample]_vars

\* ------------------------------------------- timer callbacks, step by step
\* Each timer callback is an async function: it reads, checks, mutates and
\* persists in one turn, then awaits the notification, and its finally block
\* deletes the table entry only when the awaits are over.  Between the two
\* turns the fired timer's handle is still in the table.
CallbackKinds == {"expiryCb", "bountyExpiryCb", "wfWarnCb", "bountyWarnCb"}

Running(kind, requestId) == \E c \in pending : c.kind = kind /\ c.id = requestId

\* scheduleExpiry's callback up to its first await.
ExpiryTimerStarts(requestId) ==
    /\ up
    /\ Due(activeTimeouts, requestId)
    /\ ~Running("expiryCb", requestId)
    /\ LET rs == disk
           r == rs[requestId]
           rs2 == [rs EXCEPT ![requestId].status = "expired",
                             ![requestId].expiredAt = now]
       IN IF r.status # "approved"
          THEN /\ requests' = rs
               /\ out' = Out("noop", {})
               /\ activeTimeouts' = Cancel(activeTimeouts, requestId)
               /\ UNCHANGED <<disk, pending>>
          ELSE /\ requests' = rs2
               /\ disk' = rs2
               /\ out' = Out("suspended", {})
               /\ pending' = pending \cup
                    {[kind |-> "expiryCb", id |-> requestId, snap |-> rs2[requestId]]}
               /\ UNCHANGED activeTimeouts
    /\ UNCHANGED <<variant, now, up, crashes, boot, claims, claimsDisk, sweep,
                   activeBountyTimeouts, activeWfAlertTimeouts, activeBountyAlertTimeouts>>

\* scheduleBountyExpiry's callback up to its first await.
BountyExpiryTimerStarts(requestId) ==
    /\ up
    /\ Due(activeBountyTimeouts, requestId)
    /\ ~Running("bountyExpiryCb", requestId)
    /\ LET rs == disk
           r == rs[requestId]
           rs2 == [rs EXCEPT ![requestId].bounty.active = FALSE,
                             ![requestId].bounty.expiredAt = now]
       IN IF ~r.bounty.exists
             \/ ~(r.bounty.active /\ IsNumber(r.bounty.endsAt) /\ r.bounty.endsAt <= now)
          THEN /\ requests' = rs
               /\ out' = Out("noop", {})
               /\ activeBountyTimeouts' = Cancel(activeBountyTimeouts, requestId)
               /\ UNCHANGED <<disk, pending>>
          ELSE /\ requests' = rs2
               /\ disk' = rs2
               /\ out' = Out("suspended", {})
               /\ pending' = pending \cup
                    {[kind |-> "bountyExpiryCb", id |-> requestId, snap |-> rs2[requestId]]}
               /\ UNCHANGED activeBountyTimeouts
    /\ UNCHANGED <<variant, now, up, crashes, boot, claims, claimsDisk, sweep,
                   activeTimeouts, activeWfAlertTimeouts, activeBountyAlertTimeouts>>

\* scheduleWfExpiryWarning's callback up to its first await.
WfWarningTimerStarts(requestId) ==
    /\ up
    /\ Due(activeWfAlertTimeouts, requestId)
    /\ ~Running("wfWarnCb", requestId)
    /\ LET rs == disk
           r == rs[requestId]
           endsAt2 == isApprovedAndActiveWithEnds(r, now)
           rs2 == [rs EXCEPT ![requestId].wfWarnedAt = now]
       IN IF \/ ~Truthy(endsAt2)
             \/ Truthy(r.wfWarnedAt)
             \/ now < endsAt2 - ONE_DAY_MS
             \/ now >= endsAt2
          THEN /\ requests' = rs
               /\ out' = Out("noop", {})
               /\ activeWfAlertTimeouts' = Cancel(activeWfAlertTimeouts, requestId)
               /\ UNCHANGED <<disk, pending>>
          ELSE /\ requests' = rs2
               /\ disk' = rs2
               /\ out' = Out("suspended", {})
               /\ pending' = pending \cup
                    {[kind |-> "wfWarnCb", id |-> requestId, snap |-> rs2[requestId]]}
               /\ UNCHANGED activeWfAlertTimeouts
    /\ UNCHANGED <<variant, now, up, crashes, boot, claims, claimsDisk, sweep,
                   activeTimeouts, activeBountyTimeouts, activeBountyAlertTimeouts>>

\* scheduleBountyExpiryWarning's callback up to its first await.
BountyWarningTimerStarts(requestId) ==
    /\ up
    /\ Due(activeBountyAlertTimeouts, requestId)
    /\ ~Running("bountyWarnCb", requestId)
    /\ LET rs == disk
           r == rs[requestId]
           rs2 == [rs EXCEPT ![requestId].bountyWarnedAt = now]
       IN IF \/ ~hasActiveBounty(r, now)
             \/ Truthy(r.bountyWarnedAt)
             \/ now < r.bounty.endsAt - ONE_DAY_MS
             \/ now >= r.bounty.endsAt
          THEN /\ requests' = rs
               /\ out' = Out("noop", {})
               /\ activeBountyAlertTimeouts' = Cancel(activeBountyAlertTimeouts, requestId)
               /\ UNCHANGED <<disk, pending>>
          ELSE /\ requests' = rs2
               /\ disk' = rs2
               /\ out' = Out("suspended", {})
               /\ pending' = pending \cup
                    {[kind |-> "bountyWarnCb", id |-> requestId, snap |-> rs2[requestId]]}
               /\ UNCHANGED activeBountyAlertTimeouts
    /\ UNCHANGED <<variant, now, up, crashes, boot, claims, claimsDisk, sweep,
                   activeTimeouts, activeBountyTimeouts, activeWfAlertTimeouts>>

\* The finally block of a timer callback: map.delete(requestId), whatever the
\* entry holds by then.
TimerCallbackFinally(c) ==
    /\ up
    /\ c \in pending
    /\ c.kind \in CallbackKinds
    /\ activeTimeouts' =
         IF c.kind = "expiryCb" THEN Cancel(activeTimeouts, c.id) ELSE activeTimeouts
    /\ activeBountyTimeouts' =
         IF c.kind = "bountyExpiryCb" THEN Cancel(activeBountyTimeouts, c.id)
         ELSE activeBountyTimeouts
    /\ activeWfAlertTimeouts' =
         IF c.kind = "wfWarnCb" THEN Cancel(activeWfAlertTimeouts, c.id)
         ELSE activeWfAlertTimeouts
    /\ activeBountyAlertTimeouts' =
         IF c.kind = "bountyWarnCb" THEN Cancel(activeBountyAlertTimeouts, c.id)
         ELSE activeBountyAlertTimeouts
    /\ pending' = pending \ {c}
    /\ out' = Out("ok", {})
    /\ UNCHANGED <<variant, now, up, crashes, boot, store, sweep>>

\* An awaited notification of an expiry callback is rejected.  The two expiry
\* callbacks are try/finally without a catch block: the finally block
\* deletes the entry and the rejection leaves the async callback, where no
\* handler waits for it.  The runtime then ends the process, or only reports
\* the rejection when started with --unhandled-rejections=warn.  (The two
\* warning callbacks have a catch block: for them a rejected notification
\* ends in TimerCallbackFinally.)
TimerCallbackThrows(c) ==
    /\ up
    /\ c \in pending
    /\ c.kind \in {"expiryCb", "bountyExpiryCb"}
    /\ out' = Out("unhandled_rejection", {})
    /\ \/ /\ crashes < MaxCrashes
          /\ up' = FALSE
          /\ crashes' = crashes + 1
          /\ boot' = "down"
          /\ requests' = <<>>
          /\ claims' = <<>>
          /\ activeTimeouts' = NoTimers
          /\ activeBountyTimeouts' = NoTimers
          /\ activeWfAlertTimeouts' = NoTimers
          /\ activeBountyAlertTimeouts' = NoTimers
          /\ pending' = {}
          /\ sweep' = NoSweep
          /\ UNCHANGED <<variant, now, disk, claimsDisk>>
       \/ /\ activeTimeouts' =
               IF c.kind = "expiryCb" THEN Cancel(activeTimeouts, c.id) ELSE activeTimeouts
          /\ activeBountyTimeouts' =
               IF c.kind = "bountyExpiryCb" THEN Cancel(activeBountyTimeouts, c.id)
               ELSE activeBountyTimeouts
          /\ pending' = pending \ {c}
          /\ UNCHANGED <<variant, now, up, crashes, boot, store, sweep,
                         activeWfAlertTimeouts, activeBountyAlertTimeouts>>

\* Arming, cancelling and firing with the callbacks taken step by step: one
\* application, decided and ended early or left to run out, bounties added
\* and refreshed, and one restart.
NextTimers ==
    \/ \E n \in OneName : Ids(disk) = {} /\ submitRequest("u1", n)
    \/ \E i \in RequestIds : approveRequest(i)
    \/ \E i \in RequestIds : endRequestEarly(i)
    \/ \E c \in pending : endRequestEarlyResume(c)
    \/ \E n \in OneName : addOrRefreshBounty(n)
    \/ \E i \in RequestIds : ExpiryTimerStarts(i)
    \/ \E i \in RequestIds : BountyExpiryTimerStarts(i)
    \/ \E i \in RequestIds : WfWarningTimerStarts(i)
    \/ \E i \in RequestIds : BountyWarningTimerStarts(i)
    \/ \E c \in pending : TimerCallbackFinally(c)
    \/ \E c \in pending : TimerCallbackThrows(c)
    \/ Tick
    \/ Crash
    \/ Restart
    \/ SweepStart
    \/ SweepExpireOne
    \/ SweepFinish

SpecTimers == Init /\ [][NextTimers]_vars

\* ================================================================ claims
\* Terms of the specification in which its statements are written.

\* tribeKey: the tribe name trimmed, lower-cased, each whitespace run
\* collapsed to one space.
RECURSIVE CollapseWhitespace(_)
CollapseWhitespace(s) ==
    IF s = <<>> THEN <<>>
    ELSE IF Head(s) \in Whitespace
    THEN IF Len(s) > 1 /\ s[2] \in Whitespace
         THEN CollapseWhitespace(Tail(s))
         ELSE <<" ">> \o CollapseWhitespace(Tail(s))
    ELSE <<Head(s)>> \o CollapseWhitespace(Tail(s))

tribeKey == [n \in TribeNames |-> CollapseWhitespace(ToLowerCase(Trim(n)))]

ApprovedUnexpired(r) ==
    r.status = "approved" /\ IsNumber(r.approvedAt) /\ r.approvedAt + SEVEN_DAYS_MS > now

ActiveBounty(r) ==
    r.bounty.exists /\ r.bounty.active /\ IsNumber(r.bounty.endsAt) /\ r.bounty.endsAt > now

ClaimsOn(recordId, st) ==
    {c \in Ids(claimsDisk) : claimsDisk[c].bountyRecordId = recordId /\ claimsDisk[c].status = st}

\* C1 (I1): no two Request records with the same tribeKey are approved and
\* unexpired at the same time.
C1_ApprovedUniquePerTribeKey ==
    \A i, j \in Ids(disk) :
        (i # j /\ ApprovedUnexpired(disk[i]) /\ ApprovedUnexpired(disk[j]))
            => tribeKey[disk[i].tribeName] # tribeKey[disk[j].tribeName]

\* C2 (I2): no two Request records with the same tribeKey carry an active,
\* unexpired Bounty at the same time, however the bounties were issued.
C2_ActiveBountyUniquePerTribeKey ==
    \A i, j \in Ids(disk) :
        (i # j /\ ActiveBounty(disk[i]) /\ ActiveBounty(disk[j]))
            => tribeKey[disk[i].tribeName] # tribeKey[disk[j].tribeName]

\* C3: a bounty is never fulfilled twice: at most one Claim that references a
\* given Bounty has status approved.
C3_OneApprovedClaimPerBounty ==
    \A i \in Ids(disk) : Cardinality(ClaimsOn(i, "approved")) <= 1

\* C4: claim single-flight: a Bounty never has two pending Claims; the second
\* submitClaim is refused and creates no Claim.
C4_OnePendingClaimPerBounty ==
    \A i \in Ids(disk) : Cardinality(ClaimsOn(i, "pending")) <= 1

\* C5 (I3): a Bounty whose lock is set (a claim is recorded as in flight on
\* it) names a claim id that is in the Claim store, pending, and a claim on
\* that Bounty.
C5_LockNamesPendingClaim ==
    \A i \in Ids(disk) :
        (disk[i].bounty.exists /\ disk[i].bounty.claimStatus = "pending")
            => disk[i].bounty.claimId \in ClaimsOn(i, "pending")

\* C6: denyClaim on the only pending Claim of an active Bounty sets the Claim
\* to denied and clears the Bounty's lock, so that a submitClaim issued next
\* on that Bounty passes the handler's guard and succeeds.
OnlyPendingClaimOfActiveBounty(c) ==
    /\ c \in Ids(claimsDisk)
    /\ ClaimsOn(claimsDisk[c].bountyRecordId, "pending") = {c}
    /\ hasActiveBounty(disk[claimsDisk[c].bountyRecordId], now)

DeniedAndUnlocked(c) ==
    /\ claimsDisk[c].status = "denied"
    /\ disk[claimsDisk[c].bountyRecordId].bounty.claimStatus # "pending"
    /\ ClaimGuard(disk, claimsDisk[c].bountyRecordId) = "ok"

C6_DenyUnlocks ==
    [][\A c \in ClaimIds :
          ((denyClaimIndex(c) \/ denyClaimPart(c)) /\ OnlyPendingClaimOfActiveBounty(c))
              => DeniedAndUnlocked(c)']_vars

\* A claim was denied and the next claim on the same, locking, bounty was
\* accepted.
C6_Witness ==
    /\ variant = "part"
    /\ out = Out("ok", {"claim_submitted"})
    /\ \E i \in Ids(disk) :
          /\ ClaimsOn(i, "denied") = {1}
          /\ ClaimsOn(i, "pending") = {2}
          /\ disk[i].bounty.claimStatus = "pending"
          /\ disk[i].bounty.claimId = 2

\* C7: once a Claim on a Bounty is approved the Bounty is inactive, has
\* claimedAt and claimedBy set, and no submitClaim on it can succeed.
C7_ApprovedClaimClosesBounty ==
    \A c \in Ids(claimsDisk) :
        claimsDisk[c].status = "approved"
            => LET i == claimsDisk[c].bountyRecordId
               IN /\ ~disk[i].bounty.active
                  /\ disk[i].bounty.claimedAt # None
                  /\ disk[i].bounty.claimedBy # NoUser
                  /\ ClaimGuard(disk, i) # "ok"

\* C8: while the bot of index.js is up and started, a Request is not approved
\* any longer once the clock has passed approvedAt + 7d, and every expired
\* Request has expiredAt >= approvedAt + 7d.
C8_ExpiresAfterSevenDays ==
    (variant = "index" /\ up /\ boot = "ready")
        => \A i \in Ids(disk) :
              /\ disk[i].status = "approved" => now <= disk[i].approvedAt + SEVEN_DAYS_MS
              /\ disk[i].status = "expired"
                    => disk[i].expiredAt >= disk[i].approvedAt + SEVEN_DAYS_MS

\* C9: a timer callback that finds the stored Request no longer approved, or
\* the stored Bounty no longer active or not yet due, changes no record and
\* emits no notification.
NoEffect == disk' = disk /\ claimsDisk' = claimsDisk /\ out'.sent = {}

C9_StaleTimerIsNoOp ==
    [][\A i \in RequestIds :
          /\ ((ExpiryTimerFires(i) \/ WfWarningTimerFires(i)) /\ disk[i].status # "approved")
                => NoEffect
          /\ (BountyExpiryTimerFires(i) /\ (~disk[i].bounty.active \/ disk[i].bounty.endsAt > now))
                => NoEffect
          /\ (BountyWarningTimerFires(i)
                /\ (~disk[i].bounty.active \/ now < disk[i].bounty.endsAt - ONE_DAY_MS))
                => NoEffect]_vars

\* A warning timer has just fired for a bounty that was removed after the
\* timer was armed, and did nothing.
C9_Witness ==
    /\ out = Out("noop", {})
    /\ \E i \in Ids(disk) :
          /\ disk[i].bounty.removedAt # None
          /\ disk[i].bounty.endsAt - ONE_DAY_MS = now
          /\ disk[i].bountyWarnedAt = None
          /\ activeBountyAlertTimeouts[i] = None

\* C10 (I4): once index.js has started and its startup sweep has completed,
\* each approved, unexpired Request has an armed expiry timer and, while not
\* yet warned, an armed warning timer; likewise each active Bounty.
C10_TimersArmed ==
    (variant = "index" /\ up /\ boot = "ready")
        => \A i \in Ids(disk) :
              /\ ApprovedUnexpired(disk[i])
                    => /\ activeTimeouts[i] # None
                       /\ disk[i].wfWarnedAt = None => activeWfAlertTimeouts[i] # None
              /\ ActiveBounty(disk[i])
                    => /\ activeBountyTimeouts[i] # None
                       /\ disk[i].bountyWarnedAt = None => activeBountyAlertTimeouts[i] # None


\* C11: the warning marker of a record (wfWarnedAt, bountyWarnedAt), once
\* written, is never written again, and a warning notification is emitted
\* only by the step that writes the marker of a record that had none: so each
\* marker is written at most once and each warning is sent at most once, over
\* timer firings, re-armings, bounty refreshes and restarts.
MarkerKept(i) ==
    /\ Truthy(disk[i].wfWarnedAt) =>
           i \in Ids(disk') /\ disk'[i].wfWarnedAt = disk[i].wfWarnedAt
    /\ Truthy(disk[i].bountyWarnedAt) =>
           i \in Ids(disk') /\ disk'[i].bountyWarnedAt = disk[i].bountyWarnedAt

WarningWritesMarker ==
    /\ "wf_warning" \in out'.sent =>
           \E i \in Ids(disk) : /\ ~Truthy(disk[i].wfWarnedAt)
                                /\ Truthy(disk'[i].wfWarnedAt)
    /\ "bounty_warning" \in out'.sent =>
           \E i \in Ids(disk) : /\ ~Truthy(disk[i].bountyWarnedAt)
                                /\ Truthy(disk'[i].bountyWarnedAt)

C11_WarningAtMostOnce ==
    [][(\A i \in Ids(disk) : MarkerKept(i)) /\ WarningWritesMarker]_vars

\* A refreshed bounty whose record was already warned, after a restart.
C11_Witness ==
    \E i \in Ids(disk) :
        /\ Truthy(disk[i].bountyWarnedAt)
        /\ disk[i].bounty.active
        /\ disk[i].bounty.endsAt - ONE_DAY_MS > disk[i].bountyWarnedAt
        /\ crashes > 0
        /\ boot = "ready"

\* The step of the clientReady handler that ends the start-up sweep.
SweepEnds == variant = "index" /\ boot # "ready" /\ boot' = "ready"

\* C12: when the start-up sweep ends, no stored request is still approved
\* with approvedAt + 7 days in the past, and a request stored as expired has
\* neither an expiry timer nor a warning timer.
C12_SweepCatchesUp ==
    [][SweepEnds =>
         \A i \in Ids(disk') :
             /\ (disk'[i].status = "approved" /\ IsNumber(disk'[i].approvedAt))
                    => disk'[i].approvedAt + SEVEN_DAYS_MS > now'
             /\ disk'[i].status = "expired"
                    => /\ activeTimeouts'[i] = None
                       /\ activeWfAlertTimeouts'[i] = None]_vars

\* A stored bounty that is active although its end time has passed.
OverdueBounty(r) ==
    r.bounty.exists /\ r.bounty.active /\ r.bounty.endsAt <= now

\* C13: the start-up sweep leaves every bounty that was stored active with
\* endsAt <= now inactive with expiredAt the time of the restart, on disk,
\* with no bounty timer armed, and leaves no overdue bounty active.
C13_SweepExpiresBounties ==
    [][SweepEnds =>
         /\ \A i \in Ids(disk) :
                OverdueBounty(disk[i]) =>
                    /\ ~disk'[i].bounty.active
                    /\ disk'[i].bounty.expiredAt = now
                    /\ activeBountyTimeouts'[i] = None
                    /\ activeBountyAlertTimeouts'[i] = None
         /\ \A i \in Ids(disk') :
                (disk'[i].bounty.exists /\ disk'[i].bounty.active)
                    => disk'[i].bounty.endsAt > now']_vars

\* The sweep has just expired a bounty whose end passed during downtime.
C13_Witness ==
    /\ variant = "index" /\ crashes > 0 /\ boot = "ready"
    /\ \E i \in Ids(disk) :
           /\ disk[i].bounty.exists /\ ~disk[i].bounty.active
           /\ disk[i].bounty.expiredAt = now
           /\ disk[i].bounty.endsAt < now

\* C14: while the start-up sweep is between its first read and its last
\* write, every step is a step of the sweep: no interaction handler or timer
\* callback runs.
C14_SweepNotInterleaved ==
    [][(variant = "index" /\ boot \in {"fetching", "looping"})
           => (boot' # boot \/ sweep' # sweep)]_vars

\* The timers the start-up loop owes a stored record at time t: an expiry
\* timer at the end time, and a warning timer one day before it, or at once
\* when that time has passed, unless the record is already warned.
RequestTimersArmed(r, t, tm) ==
    /\ tm.expiry = r.approvedAt + SEVEN_DAYS_MS
    /\ ~Truthy(r.wfWarnedAt)
           => tm.warning = Max(t, r.approvedAt + SEVEN_DAYS_MS - ONE_DAY_MS)

BountyTimersArmed(r, t, tm) ==
    /\ tm.expiry = r.bounty.endsAt
    /\ ~Truthy(r.bountyWarnedAt)
           => tm.warning = Max(t, r.bounty.endsAt - ONE_DAY_MS)

\* C15: when the start-up sweep ends, every stored request still approved and
\* unexpired and every stored bounty still active has its expiry timer
\* armed, and its warning timer armed (with delay 0 when the warning time has
\* passed) unless its marker is set.
C15_SweepRearms ==
    [][SweepEnds =>
         \A i \in Ids(disk') :
             /\ (/\ disk'[i].status = "approved"
                 /\ IsNumber(disk'[i].approvedAt)
                 /\ disk'[i].approvedAt + SEVEN_DAYS_MS > now')
                    => RequestTimersArmed(disk'[i], now',
                           [expiry |-> activeTimeouts'[i],
                            warning |-> activeWfAlertTimeouts'[i]])
             /\ (/\ disk'[i].bounty.exists
                 /\ disk'[i].bounty.active
                 /\ disk'[i].bounty.endsAt > now')
                    => BountyTimersArmed(disk'[i], now',
                           [expiry |-> activeBountyTimeouts'[i],
                            warning |-> activeBountyAlertTimeouts'[i]])]_vars

\* C16: under the recovering schedule, a stored request that is approved
\* with its end time within the explored clock range is eventually expired or
\* ended early, and a stored active bounty with its end time within the range
\* eventually is inactive or has been refreshed beyond the range.
C16_EventuallyEnds ==
    \A i \in RequestIds :
        /\ [](( /\ i \in Ids(disk)
                /\ disk[i].status = "approved"
                /\ IsNumber(disk[i].approvedAt)
                /\ disk[i].approvedAt + SEVEN_DAYS_MS <= MaxTime)
              => <>(i \in Ids(disk) /\ disk[i].status \in {"expired", "ended_early"}))
        /\ [](( /\ i \in Ids(disk)
                /\ disk[i].bounty.exists
                /\ disk[i].bounty.active
                /\ disk[i].bounty.endsAt <= MaxTime)
              => <>(/\ i \in Ids(disk)
                    /\ \/ ~disk[i].bounty.active
                       \/ disk[i].bounty.endsAt > MaxTime))

\* A handler replied that its guard does not hold.
Rejected == out'.res \in {"already", "not_approved"}

\* C17: a handler whose guard has stopped holding replies with a rejection
\* and changes nothing: no stored request or claim, no timer, no
\* notification. So a stored claim that is not pending keeps all its fields,
\* and a stored request is approved or denied only from pending and ended
\* early only from approved.
C17_RejectedChangesNothing ==
    [][/\ Rejected => /\ disk' = disk
                      /\ claimsDisk' = claimsDisk
                      /\ timers' = timers
                      /\ out'.sent = {}
       /\ \A c \in Ids(claimsDisk) :
              claimsDisk[c].status # "pending"
                  => (c \in Ids(claimsDisk') /\ claimsDisk'[c] = claimsDisk[c])
       /\ \A i \in Ids(disk) \cap Ids(disk') :
              /\ (disk[i].status # "pending" /\ disk'[i].status \in {"approved", "denied"})
                     => disk'[i].status = disk[i].status
              /\ (disk[i].status # "approved" /\ disk'[i].status = "ended_early")
                     => disk'[i].status = disk[i].status]_vars

PendingOf(userId) ==
    {i \in Ids(disk) : disk[i].requestedBy = userId /\ disk[i].status = "pending"}

\* C18: each requester has at most one stored request with status pending.
C18_OnePendingPerRequester ==
    \A u \in Users : Cardinality(PendingOf(u)) <= 1

\* A submission has just been rejected because its requester has a pending
\* request.
C18_Witness ==
    /\ out.res = "pending_exists"
    /\ \E u \in Users : Cardinality(PendingOf(u)) = 1
    /\ Cardinality(Ids(disk)) < MaxRequests

\* C19: a submission for a tribe for which another requester has a pending
\* request creates no request: no two stored pending requests of different
\* requesters name the same tribe.
C19_OnePendingPerTribe ==
    \A i, j \in Ids(disk) :
        (/\ i # j
         /\ disk[i].status = "pending" /\ disk[j].status = "pending"
         /\ disk[i].requestedBy # disk[j].requestedBy)
            => disk[i].tribeName # disk[j].tribeName

\* The step in which the end-early handler acts on the stored approved
\* request i.
EndsEarly(i) ==
    /\ disk[i].status = "approved"
    /\ \/ i \in Ids(disk') /\ disk'[i].status = "ended_early"
       \/ \E c \in pending' \ pending : c.kind = "endEarly" /\ c.id = i

ActiveBountiesFor(rs, name) ==
    {j \in Ids(rs) : ActiveBounty(rs[j]) /\ tribeKey[rs[j].tribeName] = tribeKey[name]}

\* The step refreshed the bounty of record i in place: nothing but endsAt
\* changed, in that record only.
RefreshedInPlace(i) ==
    /\ ActiveBounty(disk[i])
    /\ Ids(disk') = Ids(disk)
    /\ disk' = [disk EXCEPT ![i].bounty.endsAt = now + SEVEN_DAYS_MS]

\* C21: /bounty add for a tribe with an active bounty creates no record and
\* only moves that bounty's endsAt to now + 7 days; a bounty_only record is
\* created only for a tribe key with no active bounty, one at a time, and
\* carries an active bounty ending at now + 7 days.
C21_AddOrRefresh ==
    [][/\ out'.res = "refreshed" => \E i \in Ids(disk) : RefreshedInPlace(i)
       /\ \A i \in Ids(disk') \ Ids(disk) :
              disk'[i].status = "bounty_only" =>
                  /\ Cardinality(Ids(disk')) = Cardinality(Ids(disk)) + 1
                  /\ ActiveBountiesFor(disk, disk'[i].tribeName) = {}
                  /\ disk'[i].bounty.exists /\ disk'[i].bounty.active
                  /\ disk'[i].bounty.endsAt = now + SEVEN_DAYS_MS]_vars

\* The step is a successful /bounty add acting on record i: it refreshed the
\* bounty of i, or it created i as a bounty_only record.
AddSucceeded(i) ==
    \/ out'.res = "refreshed" /\ i \in Ids(disk) /\ disk'[i] # disk[i]
    \/ i \notin Ids(disk) /\ disk'[i].status = "bounty_only"

\* C22: after a successful /bounty add, on either path, the record has an
\* expiry timer due at the bounty's new endsAt and a warning timer due at
\* endsAt - 24 h, also when the bounty had been warned before the refresh.
C22_AddArmsBothTimers ==
    [][\A i \in Ids(disk') :
           AddSucceeded(i) =>
               /\ activeBountyTimeouts'[i] = disk'[i].bounty.endsAt
               /\ activeBountyAlertTimeouts'[i] = disk'[i].bounty.endsAt - ONE_DAY_MS]_vars

\* The step stored the removal of the bounty of record i.
RemovalStored(i) ==
    /\ disk'[i].bounty.removedAt # None
    /\ disk'[i].bounty.removedAt # disk[i].bounty.removedAt

\* A suspended /bounty remove of record i resumed in the step.
RemovalResumed(i) == \E c \in pending \ pending' : c.kind = "remove" /\ c.id = i

\* /bounty remove passed its guard for record i in the step.
RemovalAccepted(i) ==
    \/ \E c \in pending' \ pending : c.kind = "remove" /\ c.id = i
    \/ RemovalStored(i) /\ ~RemovalResumed(i)

C24_SameKeySameTribe ==
    \A i, j \in Ids(disk) :
        tribeKey[disk[i].tribeName] = tribeKey[disk[j].tribeName]
            => normalizedTribeName[disk[i].tribeName] = normalizedTribeName[disk[j].tribeName]

\* The status changes of a stored request that the life cycle allows.
StatusStep(a, b) ==
    \/ a = b
    \/ a = "pending" /\ b \in {"approved", "denied"}
    \/ a = "approved" /\ b \in {"expired", "ended_early"}

\* C25: the status of a stored request changes only along pending->approved,
\* pending->denied, approved->expired and approved->ended_early, so denied,
\* expired, ended_early and bounty_only never change; a record is created as
\* pending or bounty_only and is never deleted.
C25_StatusLifeCycle ==
    [][/\ \A i \in Ids(disk) :
              i \in Ids(disk') /\ StatusStep(disk[i].status, disk'[i].status)
       /\ \A i \in Ids(disk') \ Ids(disk) :
              disk'[i].status \in {"pending", "bounty_only"}]_vars

\* The step ends the protection window of the stored request i.
RequestWindowEnds(i) ==
    disk[i].status = "approved" /\ disk'[i].status # "approved"

\* The step ends the active window of the stored bounty of record i.
BountyWindowEnds(i) ==
    disk[i].bounty.exists /\ disk[i].bounty.active /\ ~disk'[i].bounty.active

\* C26: right after a step that ends a request's protection window no
\* expiry or warning timer of the request is armed, and right after a step
\* that ends a bounty's active window no expiry or warning timer of the
\* bounty is armed.
C26_EndCancelsTimers ==
    [][\A i \in Ids(disk) \cap Ids(disk') :
           /\ RequestWindowEnds(i) =>
                  /\ activeTimeouts'[i] = None
                  /\ activeWfAlertTimeouts'[i] = None
           /\ BountyWindowEnds(i) =>
                  /\ activeBountyTimeouts'[i] = None
                  /\ activeBountyAlertTimeouts'[i] = None]_vars

\* C27: for every record and timer kind at most one delayed action is
\* outstanding: arming replaces the entry of the key, and the entry of a key
\* is the outstanding timer.  The table can part from the outstanding timers
\* only while a callback is between its first await and its finally block,
\* where the fired handle is still in the table: a timer armed for the key
\* in that window would lose its entry to the finally block.  No step arms a
\* key whose callback is running.
EntryKept(tm1, tm2, requestId) == tm2[requestId] \in {None, tm1[requestId]}

ResumeKeeps(c) ==
    /\ (c.kind = "endEarly") =>
          disk'[c.id] = [disk[c.id] EXCEPT !.bounty.announced = TRUE]
    /\ (c.kind = "remove") =>
          disk'[c.id] = [disk[c.id] EXCEPT !.bounty.active = FALSE,
                                           !.bounty.removedAt = c.snap.bounty.removedAt,
                                           !.bounty.removedBy = c.snap.bounty.removedBy]

C28_NoLostUpdate ==
    [][\A c \in pending \ pending' :
           (up' /\ c.kind \in {"endEarly", "remove"}) => ResumeKeeps(c)]_vars

\* C29: a failing notification never changes what is persisted; in
\* particular, when the start-up sweep ends, every record its loop has marked
\* expired is stored as expired, whether the notifications were delivered or
\* not.
SweepLoopEnds == boot = "looping" /\ boot' = "ready"

C29_SendFailureKeepsState ==
    [][SweepLoopEnds =>
          \A i \in Ids(requests) :
              (requests[i].status = "expired") =>
                  (i \in Ids(disk') /\ disk'[i].status = "expired")]_vars

\* C30: an error raised inside a timer callback is caught inside the
\* callback: when a callback ends, no rejection has left it unhandled, and
\* the entry of its key is gone from the timer table.
CallbackEnds(c) == c \in pending /\ c \notin pending' /\ c.kind \in CallbackKinds

C30_CallbackErrorsCaught ==
    [][\A c \in pending :
          CallbackEnds(c) =>
              /\ out'.res # "unhandled_rejection"
              /\ (c.kind = "expiryCb") => activeTimeouts'[c.id] = None
              /\ (c.kind = "bountyExpiryCb") => activeBountyTimeouts'[c.id] = None
              /\ (c.kind = "wfWarnCb") => activeWfAlertTimeouts'[c.id] = None
              /\ (c.kind = "bountyWarnCb") => activeBountyAlertTimeouts'[c.id] = None]_vars

\* C31: submitClaim makes the Claim durable before, or together with, the
\* lock of the Bounty: every store write that puts a lock on a stored Bounty
\* leaves the Claim the lock names in the Claim store, pending, also when
\* the process dies between the two file writes.
LockWritten(i) ==
    /\ i \in Ids(disk')
    /\ disk'[i].bounty.exists
    /\ disk'[i].bounty.claimStatus = "pending"
    /\ (i \notin Ids(disk)
        \/ disk[i].bounty.claimStatus # "pending"
        \/ disk[i].bounty.claimId # disk'[i].bounty.claimId)

C31_ClaimDurableBeforeLock ==
    [][\A i \in RequestIds :
          LockWritten(i) =>
              /\ disk'[i].bounty.claimId \in Ids(claimsDisk')
              /\ claimsDisk'[disk'[i].bounty.claimId].status = "pending"]_vars

\* C32: claim-lock frame.  A stored Bounty is locked while a Claim on it is
\* recorded as pending or approved (new claims are refused).  Only a claim
\* submission locks a Bounty, only a claim denial or a removal of the Bounty
\* unlocks it, and no step changes the claim id a locked Bounty names.
Locked(r) == r.bounty.exists /\ r.bounty.claimStatus \in {"pending", "approved"}

ClaimSubmitted == Len(claimsDisk') = Len(claimsDisk) + 1 \/ (up /\ ~up')

ClaimDenied ==
    \E c \in Ids(claimsDisk) :
        claimsDisk[c].status # "denied" /\ claimsDisk'[c].status = "denied"

BountyRemoved(i) ==
    disk'[i].bounty.exists /\ disk'[i].bounty.removedAt # None
        /\ disk'[i].bounty.removedAt # disk[i].bounty.removedAt

C32_LockFrame ==
    [][\A i \in Ids(disk) \cap Ids(disk') :
          /\ (~Locked(disk[i]) /\ Locked(disk'[i])) => ClaimSubmitted
          /\ (Locked(disk[i]) /\ ~Locked(disk'[i])) => (ClaimDenied \/ BountyRemoved(i))
          /\ (Locked(disk[i]) /\ Locked(disk'[i])) =>
                disk'[i].bounty.claimId = disk[i].bounty.claimId]_vars

\* C33: an approval at any clock value t0, t0 = 0 included, stores
\* approvedAt = t0 and arms the expiry timer of the request for
\* t0 + 604800000 ms.
Approves(i) ==
    /\ i \in Ids(disk) /\ i \in Ids(disk')
    /\ disk[i].status = "pending"
    /\ disk'[i].status = "approved"

C33_ApprovalArmsExpiry ==
    [][\A i \in RequestIds :
          Approves(i) =>
              /\ disk'[i].approvedAt = now
              /\ activeTimeouts'[i] = now + 604800000]_vars

C35_ClosedBountyStaysClosed ==
    [][\A i \in Ids(disk) \cap Ids(disk') :
          (disk[i].bounty.exists /\ ~disk[i].bounty.active) =>
              ~(disk'[i].bounty.exists /\ disk'[i].bounty.active)]_vars

\* C36: a Bounty closes for exactly one reason: of claimedAt, removedAt and
\* expiredAt of a stored Bounty at most one is set.
CloseReasons(b) ==
    {k \in {"claimed", "removed", "expired"} :
        \/ k = "claimed" /\ b.claimedAt # None
        \/ k = "removed" /\ b.removedAt # None
        \/ k = "expired" /\ b.expiredAt # None}

C36_OneCloseReason ==
    \A i \in Ids(disk) :
        disk[i].bounty.exists => Cardinality(CloseReasons(disk[i].bounty)) <= 1

\* C37: an operation that replies with an error leaves the stored requests
\* and claims and the timer tables as they were, and an operation that has
\* stored a new record replies with success.
ErrorReply == out'.res = "error"

C37_ErrorChangesNothing ==
    [][/\ ErrorReply => /\ disk' = disk
                        /\ claimsDisk' = claimsDisk
                        /\ timers' = timers
       /\ (Len(disk') > Len(disk) \/ Len(claimsDisk') > Len(claimsDisk))
              => out'.res = "ok"]_vars

\* C38: no warning is recorded or emitted outside the last 24 hours of a
\* live window.  A step that sets wfWarnedAt, or emits the white-flag
\* warning, finds the request approved with endsAt - 24h <= now < endsAt; a
\* step that sets bountyWarnedAt, or emits the bounty warning, finds the
\* bounty active with endsAt - 24h <= now < endsAt.  A warning timer left
\* armed after End Early, removal or claim approval fires without effect.
\* (A handler resumed after its await stores its snapshot, marker included:
\* that is a write-back of a warning recorded before, not a warning.)
InLastDay(endsAt) == endsAt - ONE_DAY_MS <= now /\ now < endsAt

WfWarned(i) ==
    /\ pending \ pending' = {}
    /\ i \in Ids(disk')
    /\ disk'[i].wfWarnedAt = now
    /\ disk[i].wfWarnedAt # now

BountyWarned(i) ==
    /\ pending \ pending' = {}
    /\ i \in Ids(disk')
    /\ disk'[i].bountyWarnedAt = now
    /\ disk[i].bountyWarnedAt # now

C38_WarningsInLastDay ==
    [][/\ \A i \in Ids(disk) :
              /\ WfWarned(i) =>
                    /\ disk[i].status = "approved"
                    /\ InLastDay(disk[i].approvedAt + SEVEN_DAYS_MS)
              /\ BountyWarned(i) =>
                    /\ disk[i].bounty.exists /\ disk[i].bounty.active
                    /\ InLastDay(disk[i].bounty.endsAt)
       /\ ("wf_warning" \in out'.sent) => \E i \in Ids(disk) : WfWarned(i)
       /\ ("bounty_warning" \in out'.sent) => \E i \in Ids(disk) : BountyWarned(i)]_vars

\* The white-flag warning timer of a request ended early has fired, six days
\* after the approval, and has recorded nothing.
C38_Witness ==
    \E i \in Ids(disk) :
        /\ disk[i].status = "ended_early"
        /\ Truthy(disk[i].approvedAt)
        /\ now = disk[i].approvedAt + SEVEN_DAYS_MS - ONE_DAY_MS
        /\ activeWfAlertTimeouts[i] = None
        /\ activeBountyAlertTimeouts[i] # None
        /\ disk[i].wfWarnedAt = None
        /\ out.res = "noop"

\* C39: protection and bounty are mutually exclusive per tribe: no tribeKey
\* has both a stored Request that is approved and unexpired and a stored
\* Bounty that is active and unexpired.
C39_ProtectionExcludesBounty ==
    \A i, j \in Ids(disk) :
        (ApprovedUnexpired(disk[i]) /\ ActiveBounty(disk[j]))
            => tribeKey[disk[i].tribeName] # tribeKey[disk[j].tribeName]

====
